---- MODULE Spec2Model ----
(***************************************************************************)
(* Model of the quiz backend (src/app.py, src/models.py): the three tables *)
(* Quiz / Question / Student, the five HTTP handlers, and the helpers the  *)
(* handlers call (extract_text_from_pdf, build_prompt, call_llm,           *)
(* parse_mcqs).                                                            *)
(*                                                                         *)
(* Text is a sequence of one-character strings, so that the regular        *)
(* expressions of parse_mcqs and str.strip() are computed character by     *)
(* character.  Requests that touch the store more than once (join, submit) *)
(* are split at the point where another request's commit can fall between  *)
(* their read and their write; the requests in flight form a bag.          *)
(***************************************************************************)
EXTENDS Integers, Sequences, FiniteSets, Bags, TLC

\* ------------------------------------------------------------------ bounds
MaxInflight == 2    \* join/submit requests between their read and their write
MaxStudents == 2    \* Student rows
NumQuizIds  == 1    \* distinct values str(uuid.uuid4())[:8] takes
MaxBlocks   == 3    \* blocks in an answer of the model given to the parser

\* ------------------------------------------------------- program constants
max_chars   == 8000 \* extract_text_from_pdf(path, max_chars=8000)
timeout_sec == 40   \* call_llm(prompt, timeout_sec=40)
DefaultNumQ == 5    \* request.form.get("num_q", 5)
DefaultTime == 5    \* request.form.get("quiz_time", 5)

\* ------------------------------------------------------------- characters
Digits  == {"0", "1", "2", "3", "4", "5", "6", "7", "8", "9"}
Letters == {"A", "B", "C", "D"}            \* the class [ABCD]
NL      == "\n"

\* \s of the re module, over the characters the inputs use
IsSpace(c) == c \in {" ", "\n", "\t"}

\* the least element of a non-empty set of positions
First(S) == CHOOSE x \in S : \A y \in S : x <= y

\* the first position from i on that satisfies Stop, or Len(s) + 1
Scan(s, i, Stop(_)) ==
  First({j \in i..(Len(s) + 1) : j = Len(s) + 1 \/ Stop(j)})

\* \s* from position i: the first position that is not whitespace
SkipSpace(s, i) == LET Stop(j) == ~IsSpace(s[j]) IN Scan(s, i, Stop)

\* \d* from position i
SkipDigits(s, i) == LET Stop(j) == s[j] \notin Digits IN Scan(s, i, Stop)

\* .* from position i: the position of the next newline, or Len(s) + 1
EndOfLine(s, i) == LET Stop(j) == s[j] = NL IN Scan(s, i, Stop)

\* the literal lit occurs in s at position i
LitAt(s, i, lit) ==
  /\ i >= 1
  /\ i + Len(lit) - 1 <= Len(s)
  /\ \A k \in 1..Len(lit) : s[i + k - 1] = lit[k]

\* str.strip(): without the leading and the trailing whitespace
Strip(s) ==
  LET kept == {k \in 1..Len(s) : ~IsSpace(s[k])}
  IN  IF kept = {} THEN <<>>
      ELSE SubSeq(s, First(kept), CHOOSE x \in kept : \A y \in kept : y <= x)

\* ----------------------------------------------------------- parse_mcqs
\* Q\d+: matched at position i: the position after the colon, 0 if no match
MatchQ(s, i) ==
  IF i >= 1 /\ i + 1 <= Len(s) /\ s[i] = "Q" /\ s[i + 1] \in Digits
  THEN LET j == SkipDigits(s, i + 1)
       IN  IF j <= Len(s) /\ s[j] = ":" THEN j + 1 ELSE 0
  ELSE 0

RECURSIVE SplitFrom(_, _, _)
\* re.split(r"\n?(?=Q\d+:)", s), the search resuming at from with the
\* current piece starting at last.  A newline before a marker is a non-empty
\* match and is followed by an empty match at the marker itself, which
\* yields an empty piece; a marker not preceded by a newline is one empty
\* match.
SplitFrom(s, from, last) ==
  LET Hit(i) == (s[i] = NL /\ MatchQ(s, i + 1) > 0) \/ MatchQ(s, i) > 0
      i      == Scan(s, from, Hit)
  IN  IF i > Len(s) THEN << SubSeq(s, last, Len(s)) >>
      ELSE IF s[i] = NL
           THEN << SubSeq(s, last, i - 1), <<>> >> \o SplitFrom(s, i + 2, i + 1)
           ELSE << SubSeq(s, last, i - 1) >> \o SplitFrom(s, i + 1, i)

SplitBlocks(text) == SplitFrom(text, 1, 1)

\* re.search(r"Q\d+:\s*(.*)", b): <<TRUE, group 1>> or <<FALSE, "">>
FindQ(b) ==
  LET Hit(i) == MatchQ(b, i) > 0
      i      == Scan(b, 1, Hit)
  IN  IF i > Len(b) THEN << FALSE, <<>> >>
      ELSE LET j == SkipSpace(b, MatchQ(b, i))
           IN  << TRUE, SubSeq(b, j, EndOfLine(b, j) - 1) >>

RECURSIVE FindOpts(_, _)
\* re.findall(r"\n([ABCD])\.\s*(.*)", b): the pairs (letter, text), the scan
\* resuming where the previous match ended
FindOpts(b, from) ==
  LET Hit(i) == /\ b[i] = NL
                /\ i + 2 <= Len(b)
                /\ b[i + 1] \in Letters
                /\ b[i + 2] = "."
      i      == Scan(b, from, Hit)
  IN  IF i > Len(b) THEN <<>>
      ELSE LET j == SkipSpace(b, i + 3)
               e == EndOfLine(b, j)
           IN  << << b[i + 1], SubSeq(b, j, e - 1) >> >> \o FindOpts(b, e)

ANSWER      == << "A", "n", "s", "w", "e", "r", ":" >>
EXPLANATION == << "E", "x", "p", "l", "a", "n", "a", "t", "i", "o", "n", ":" >>

\* FindAns taking the letter E for an answer as well
FindAns_LetterE(b) ==
  LET After(i) == SkipSpace(b, i + Len(ANSWER))
      Hit(i)   == /\ LitAt(b, i, ANSWER)
                  /\ After(i) <= Len(b)
                  /\ b[After(i)] \in Letters \cup {"E"}
      i        == Scan(b, 1, Hit)
  IN  IF i > Len(b) THEN << FALSE, "" >> ELSE << TRUE, b[After(i)] >>

\* re.search(r"Answer:\s*([ABCD])", b): <<TRUE, letter>> or <<FALSE, "">>
FindAns(b) ==
  LET After(i) == SkipSpace(b, i + Len(ANSWER))
      Hit(i)   == /\ LitAt(b, i, ANSWER)
                  /\ After(i) <= Len(b)
                  /\ b[After(i)] \in Letters
      i        == Scan(b, 1, Hit)
  IN  IF i > Len(b) THEN << FALSE, "" >> ELSE << TRUE, b[After(i)] >>

\* re.search(r"Explanation:\s*(.*)", b)
FindExp(b) ==
  LET Hit(i) == LitAt(b, i, EXPLANATION)
      i      == Scan(b, 1, Hit)
  IN  IF i > Len(b) THEN << FALSE, <<>> >>
      ELSE LET j == SkipSpace(b, i + Len(EXPLANATION))
           IN  << TRUE, SubSeq(b, j, EndOfLine(b, j) - 1) >>

\* BlockAccepted without the count of the options
BlockAccepted_AnyOptions(q, opts, ans) == q[1] /\ ans[1]

\* the test of line 99: the block is kept
BlockAccepted(q, opts, ans) == q[1] /\ Len(opts) = 4 /\ ans[1]

\* the body of the loop of parse_mcqs for one block: <<record>> or <<>>
ParseBlock(b) ==
  LET q    == FindQ(b)
      opts == FindOpts(b, 1)
      ans  == FindAns(b)
      exp  == FindExp(b)
  IN  IF BlockAccepted(q, opts, ans)
      THEN << [ q             |-> Strip(q[2]),
                options       |-> [k \in 1..Len(opts) |-> Strip(opts[k][2])],
                answer_letter |-> ans[2],
                explanation   |-> IF exp[1] THEN Strip(exp[2]) ELSE <<>> ] >>
      ELSE <<>>

RECURSIVE ParseBlocks(_)
ParseBlocks(blocks) ==
  IF blocks = <<>> THEN <<>>
  ELSE ParseBlock(Head(blocks)) \o ParseBlocks(Tail(blocks))

parse_mcqs(text) == ParseBlocks(SplitBlocks(text))

\* ------------------------------------------------ extract_text_from_pdf
RECURSIVE JoinWith(_, _)
\* sep.join(parts)
JoinWith(parts, sep) ==
  IF parts = <<>> THEN <<>>
  ELSE IF Len(parts) = 1 THEN Head(parts)
       ELSE Head(parts) \o sep \o JoinWith(Tail(parts), sep)

RECURSIVE CollapseSpace(_, _)
\* re.sub(r"\s+", " ", s) from position i: each run of whitespace becomes
\* one space
CollapseSpace(s, i) ==
  IF i > Len(s) THEN <<>>
  ELSE IF IsSpace(s[i])
       THEN << " " >> \o CollapseSpace(s, SkipSpace(s, i))
       ELSE << s[i] >> \o CollapseSpace(s, i + 1)

Min(a, b) == IF a <= b THEN a ELSE b

\* s[:n]
Truncate(s, n) == SubSeq(s, 1, Min(Len(s), n))

\* extract_text_from_pdf(path): the pages of the opened document
extract_text_from_pdf(pages) ==
  Truncate(Strip(CollapseSpace(JoinWith(pages, << " " >>), 1)), max_chars)

\* ------------------------------------------------------------------ int()
DigitVal(c) == CHOOSE n \in 0..9 : ToString(n) = c

RECURSIVE DigitsVal(_, _)
\* the value of a run of decimal digits, acc the value read so far
DigitsVal(s, acc) ==
  IF s = <<>> THEN acc ELSE DigitsVal(Tail(s), 10 * acc + DigitVal(Head(s)))

AllDigits(s) == s # <<>> /\ \A k \in 1..Len(s) : s[k] \in Digits

\* int(s) of a form string: [ok |-> FALSE] stands for ValueError
PyInt(s) ==
  LET t    == Strip(s)
      neg  == t # <<>> /\ Head(t) = "-"
      body == IF t # <<>> /\ Head(t) \in {"-", "+"} THEN Tail(t) ELSE t
  IN  IF AllDigits(body)
      THEN [ok |-> TRUE,
            val |-> IF neg THEN 0 - DigitsVal(body, 0) ELSE DigitsVal(body, 0)]
      ELSE [ok |-> FALSE, val |-> 0]

\* int(request.form.get(name, default)): the field is absent or a string
FormInt(field, default) ==
  IF field.present THEN PyInt(field.s) ELSE [ok |-> TRUE, val |-> default]

\* ------------------------------------------------- build_prompt, call_llm
\* the prompt embeds the requested count and the source text in the template
build_prompt(src_text, num_q) == [num_q |-> num_q, text |-> src_text]

GroqApiFailed == "Groq API failed"
GroqTimeout   == "Groq timeout"

\* OverBudget refusing a response that took exactly the budget
OverBudget_AtLimit(elapsed) == elapsed >= timeout_sec

\* the elapsed time is over the budget (line 83)
OverBudget(elapsed) == elapsed > timeout_sec

\* call_llm(prompt) when the service behaves as outcome says: it raised, or
\* it answered content after elapsed seconds
call_llm(prompt, outcome) ==
  IF outcome.raised
  THEN [ok |-> FALSE, err |-> GroqApiFailed, raw |-> <<>>]
  ELSE IF OverBudget(outcome.elapsed)
       THEN [ok |-> FALSE, err |-> GroqTimeout, raw |-> <<>>]
       ELSE [ok |-> TRUE, err |-> "", raw |-> outcome.content]

\* ------------------------------------------------------ request inputs
QLine(d, t)   == << "Q", d, ":", " " >> \o t
OptLine(l, t) == << l, ".", " " >> \o t
AnsLine(l)    == ANSWER \o << " ", l >>
ExpLine(t)    == EXPLANATION \o << " " >> \o t
Lines(ls)     == JoinWith(ls, << NL >>)

\* the block of the format build_prompt asks for
Block1 == Lines(<< QLine("1", << "2", "+", "2", "?" >>),
                   OptLine("A", << "3" >>), OptLine("B", << "4" >>),
                   OptLine("C", << "5" >>), OptLine("D", << "6" >>),
                   AnsLine("B"), ExpLine(<< "m", "a", "t", "h" >>) >>)

\* a second block, without explanation
Block2 == Lines(<< QLine("2", << "y" >>),
                   OptLine("A", << "1" >>), OptLine("B", << "2" >>),
                   OptLine("C", << "3" >>), OptLine("D", << "4" >>),
                   AnsLine("C") >>)

\* a block with three options
Block3Opts == Lines(<< QLine("7", << "z" >>),
                       OptLine("A", << "1" >>), OptLine("B", << "2" >>),
                       OptLine("C", << "3" >>), AnsLine("A") >>)

\* what the model may answer: nothing of the format, or three blocks of
\* which the first lacks an option
RawTexts == { << "h", "i" >>, Lines(<< Block3Opts, Block1, Block2 >>) }

\* the service answered one of RawTexts within the budget
InTime == { [raised |-> FALSE, elapsed |-> timeout_sec, content |-> t] :
              t \in RawTexts }

\* the service raised, or answered late, or answered in time
LLMOutcomes ==
  { [raised |-> TRUE, elapsed |-> 1, content |-> <<>>],
    [raised |-> FALSE, elapsed |-> timeout_sec + 1,
     content |-> Lines(<< Block3Opts, Block1, Block2 >>)] } \cup InTime

\* parse_mcqs of each answer of the model
Parsed == [t \in RawTexts |-> parse_mcqs(t)]

\* a JSON value that is null or a string
Null   == [isNull |-> TRUE, s |-> <<>>]
Str(s) == [isNull |-> FALSE, s |-> s]

\* a form field that is absent or a string
Absent   == [present |-> FALSE, s |-> <<>>]
Field(s) == [present |-> TRUE, s |-> s]

\* request.files.get("pdf"): no file, a file fitz cannot open, a document
\* without text, a document with one page of text
NoFile     == [present |-> FALSE, opens |-> FALSE, pages |-> <<>>]
FileInputs == { NoFile,
                [present |-> TRUE, opens |-> FALSE, pages |-> <<>>],
                [present |-> TRUE, opens |-> TRUE, pages |-> <<>>],
                [present |-> TRUE, opens |-> TRUE,
                 pages |-> << << " ", "t", NL, "u" >> >>] }

ParagraphInputs == { <<>>, << "t" >> }
NumQInputs      == { Absent, Field(<< "x" >>) }
QuizTimeInputs  == { Absent, Field(<< "0" >>) }

\* the values the eight leading characters of a uuid4 take
QuizIds == 1..NumQuizIds

\* the <quiz_id> of a request path: one of those, or one no quiz ever gets
PathIds == 0..NumQuizIds

\* the "name" of a join or submit body
NameInputs == { Null, Str(<< " " >>), Str(<< "a" >>), Str(<< " ", "a" >>) }

\* the "answers" of a submit body, a map from keys to letters: none, the
\* first alone (right, wrong, or right in lower case), the second alone,
\* both right
AnswerKeys == { "0", "1" }
AnswerVals == { "B", "C" }
AnswerMaps ==
  { f \in UNION { [K -> AnswerVals] : K \in SUBSET AnswerKeys } :
      \/ DOMAIN f = {}
      \/ DOMAIN f = {"0"}
      \/ f["1"] = "C" /\ ("0" \in DOMAIN f => f["0"] = "B") }
    \cup { [k \in {"0"} |-> "b"] }

\* the requests the clients make: every input of every handler
AllRequests ==
  [files |-> FileInputs, paragraphs |-> ParagraphInputs,
   num_qs |-> NumQInputs, quiz_times |-> QuizTimeInputs,
   outcomes |-> LLMOutcomes, ids |-> PathIds, names |-> NameInputs,
   answers |-> AnswerMaps,
   observed |-> {"generate", "get_quiz", "join", "submit", "admin"}]

\* the requests that race: a paragraph to generate from, the quizzes there
\* are or will be, one name, none, one or both of the right answers
RacingRequests ==
  [files |-> { NoFile }, paragraphs |-> { << "t" >> },
   num_qs |-> { Absent }, quiz_times |-> { Absent },
   outcomes |-> InTime, ids |-> QuizIds,
   names |-> { Str(<< "a" >>) },
   answers |-> { << >>, [k \in {"0"} |-> "B"],
                 [k \in {"0", "1"} |-> IF k = "0" THEN "B" ELSE "C"] },
   observed |-> {"generate"}]

\* ------------------------------------------------------------- the store
VARIABLES
  quiz,       \* the rows of table quiz: [id, time]
  question,   \* the rows of table question, in rowid order
  student,    \* the rows of table student, in rowid order
  inflight,   \* the bag of join/submit requests between read and write
  done        \* the request that the last step answered, with its response

vars  == << quiz, question, student, inflight, done >>
store == << quiz, question, student >>

\* no request was answered by the step
NoResp == [op |-> "none"]

\* the response as far as the clients of reqs are watched
Respond(reqs, resp) == IF resp.op \in reqs.observed THEN resp ELSE NoResp

\* Quiz.query.get(quiz_id): the rows with that primary key
QuizGet(quiz_id) == {r \in quiz : r.id = quiz_id}

\* QuestionsOf listing the rows last first
QuestionsOf_Reversed(quiz_id) ==
  LET Match(r) == r.quiz_id = quiz_id
      rows     == SelectSeq(question, Match)
  IN  [k \in 1..Len(rows) |-> rows[Len(rows) + 1 - k]]

\* Question.query.filter_by(quiz_id=quiz_id).all()
QuestionsOf(quiz_id) ==
  LET Match(r) == r.quiz_id = quiz_id IN SelectSeq(question, Match)

\* StudentsNamed comparing the stripped name, as join stores it
StudentsNamed_Stripped(quiz_id, name) ==
  LET Match(r) == r.quiz_id = quiz_id /\ ~name.isNull /\ r.name = Strip(name.s)
  IN  SelectSeq(student, Match)

\* StudentsNamed finding the students of the quiz whatever their name
StudentsNamed_AnyName(quiz_id, name) ==
  LET Match(r) == r.quiz_id = quiz_id IN SelectSeq(student, Match)

\* Student.query.filter_by(quiz_id=quiz_id, name=name).all(), name a JSON
\* value: a null name compares equal to no row
StudentsNamed(quiz_id, name) ==
  LET Match(r) == r.quiz_id = quiz_id /\ ~name.isNull /\ r.name = name.s
  IN  SelectSeq(student, Match)

\* Student.query.filter_by(quiz_id=quiz_id).all()
StudentsOf(quiz_id) ==
  LET Match(r) == r.quiz_id = quiz_id IN SelectSeq(student, Match)

\* the Question rows generate adds for the parsed records (lines 153-160),
\* the primary keys continuing the table's
QuestionRows(quiz_id, questions) ==
  [k \in 1..Len(questions) |->
     [id            |-> Len(question) + k,
      quiz_id       |-> quiz_id,
      question      |-> questions[k].q,
      options       |-> questions[k].options,
      answer_letter |-> questions[k].answer_letter,
      explanation   |-> questions[k].explanation]]

\* Student(name=name, quiz_id=quiz_id) with the column defaults
StudentRow(quiz_id, name) ==
  [id |-> Len(student) + 1, name |-> name, quiz_id |-> quiz_id,
   score |-> 0, finished |-> FALSE]

\* ---------------------------------------------------------------- generate
InputRequired       == "Input required"
FailedToGenerate    == "Failed to generate questions"
AIGenerationFailed  == "AI generation failed. Try again."
InternalServerError == "Internal Server Error"
QuizNotFound        == "Quiz not found"
NameRequired        == "Name required"

\* NoQuestions never stopping the handler
NoQuestions_Never(questions) == FALSE

\* the test of line 142: the parser returned no record
NoQuestions(questions) == questions = <<>>

\* CommitQuiz committing the Quiz row before the Question rows are added
CommitQuiz_QuizOnly(quiz_id, quiz_time, questions) ==
  [quiz     |-> quiz \cup {[id |-> quiz_id, time |-> quiz_time]},
   question |-> question]

\* db.session.commit() of lines 149-162: the Quiz row and the Question rows
\* of one session become visible together
CommitQuiz(quiz_id, quiz_time, questions) ==
  [quiz     |-> quiz \cup {[id |-> quiz_id, time |-> quiz_time]},
   question |-> question \o QuestionRows(quiz_id, questions)]

\* the call of the model as the handler saw it: not made, or what the
\* service did and how long it took
NotCalled       == [raised |-> FALSE, elapsed |-> -1]
Timing(outcome) == [raised |-> outcome.raised, elapsed |-> outcome.elapsed]

\* what the upload was: none, a file fitz cannot open, a document whose
\* extracted text is empty, a document with text
DocKind(file) ==
  IF ~file.present THEN "none"
  ELSE IF ~file.opens THEN "unopenable"
       ELSE IF extract_text_from_pdf(file.pages) = <<>> THEN "empty"
            ELSE "text"

\* the kind of each upload
DocKinds == [f \in FileInputs |-> DocKind(f)]

\* the response of generate to a request with or without file and paragraph
\* (ints: both number fields were integers; llm: the call of the model;
\* parsed: the number of records line 140 logs, -1 when the parser was not
\* reached)
GenerateResp(file, paragraph, ints, status, error, llm, parsed, quiz_id, time) ==
  [op |-> "generate", file |-> file.present, doc |-> DocKinds[file],
   paragraph |-> paragraph # <<>>,
   ints |-> ints, status |-> status, error |-> error,
   called |-> llm # NotCalled, llm |-> llm,
   parsed |-> parsed, quiz_id |-> quiz_id,
   count |-> IF status = 200 THEN parsed ELSE 0, time |-> time]

\* HasParagraph taking an empty paragraph for an input
HasParagraph_Always(paragraph) == TRUE

\* the test of line 128
HasParagraph(paragraph) == paragraph # <<>>

\* lines 117-132: the form fields and the source text.  failed with status
\* and error when the handler ends here, else the text and the numbers
GenerateInput(file, paragraph, num_q_field, quiz_time_field) ==
  LET num_q     == FormInt(num_q_field, DefaultNumQ)
      quiz_time == FormInt(quiz_time_field, DefaultTime)
      Fail(status, error) ==
        [failed |-> TRUE, status |-> status, error |-> error,
         text |-> <<>>, num_q |-> 0, quiz_time |-> 0,
         ints |-> num_q.ok /\ quiz_time.ok]
      Text(text) ==
        [failed |-> FALSE, status |-> 0, error |-> "",
         text |-> text, num_q |-> num_q.val, quiz_time |-> quiz_time.val,
         ints |-> TRUE]
  IN  IF ~num_q.ok \/ ~quiz_time.ok
      THEN Fail(500, InternalServerError)   \* ValueError of int(), not caught
      ELSE IF file.present
           THEN IF ~file.opens
                THEN Fail(500, InternalServerError)  \* fitz.open raises
                ELSE Text(extract_text_from_pdf(file.pages))
           ELSE IF HasParagraph(paragraph)
                THEN Text(paragraph)
                ELSE Fail(400, InputRequired)

\* lines 134-147: the call of the model and the parse.  failed with the
\* error of the 500 response, else the parsed records
GenerateQuestions(text, num_q, outcome) ==
  \* a set of one element, so that the reply and the parse are computed once
  LET replies == {call_llm(build_prompt(text, num_q), outcome)}
      results ==
        {IF llm.ok THEN [ok |-> TRUE, questions |-> Parsed[llm.raw]]
                   ELSE [ok |-> FALSE, questions |-> <<>>] : llm \in replies}
      Outcome(r) ==
        IF ~r.ok
        THEN [failed |-> TRUE, error |-> AIGenerationFailed, parsed |-> -1,
              questions |-> <<>>]
        ELSE IF NoQuestions(r.questions)
             THEN [failed |-> TRUE, error |-> FailedToGenerate,
                   parsed |-> Len(r.questions), questions |-> <<>>]
             ELSE [failed |-> FALSE, error |-> "",
                   parsed |-> Len(r.questions), questions |-> r.questions]
  IN  CHOOSE g \in {Outcome(r) : r \in results} : TRUE

\* POST /api/generate
Generate(reqs) ==
  \E file \in reqs.files, paragraph \in reqs.paragraphs,
     num_q \in reqs.num_qs, quiz_time \in reqs.quiz_times :
    \E inp \in {GenerateInput(file, paragraph, num_q, quiz_time)} :
      IF inp.failed
      THEN /\ done' = Respond(reqs,
                        GenerateResp(file, paragraph, inp.ints, inp.status,
                                     inp.error, NotCalled, -1, 0, 0))
           /\ UNCHANGED << quiz, question, student, inflight >>
      ELSE \E outcome \in reqs.outcomes :
             \E g \in {GenerateQuestions(inp.text, inp.num_q, outcome)} :
               IF g.failed
               THEN /\ done' = Respond(reqs,
                                 GenerateResp(file, paragraph, TRUE, 500,
                                              g.error, Timing(outcome), g.parsed,
                                              0, 0))
                    /\ UNCHANGED << quiz, question, student, inflight >>
               ELSE \E uuid \in QuizIds :
                      IF QuizGet(uuid) # {}
                      THEN \* IntegrityError at the commit, not caught: the
                           \* session is rolled back
                           /\ done' = Respond(reqs,
                                        GenerateResp(file, paragraph, TRUE,
                                          500, InternalServerError,
                                          Timing(outcome), g.parsed, 0, 0))
                           /\ UNCHANGED << quiz, question, student,
                                           inflight >>
                      ELSE \E c \in {CommitQuiz(uuid, inp.quiz_time,
                                                g.questions)} :
                             /\ quiz' = c.quiz
                             /\ question' = c.question
                             /\ done' = Respond(reqs,
                                  GenerateResp(file, paragraph, TRUE, 200,
                                    "", Timing(outcome), g.parsed, uuid,
                                    inp.quiz_time))
                             /\ UNCHANGED << student, inflight >>

\* ---------------------------------------------------------------- get_quiz
\* QuizView listing the answer letter with each question
QuizView_WithKey(questions) ==
  [k \in 1..Len(questions) |->
     [q |-> questions[k].question, options |-> questions[k].options,
      answer_letter |-> questions[k].answer_letter]]

\* the list comprehension of lines 183-186
QuizView(questions) ==
  [k \in 1..Len(questions) |->
     [q |-> questions[k].question, options |-> questions[k].options]]

\* GetQuizResp without the lookup of the Quiz row
GetQuizResp_NoLookup(quiz_id) ==
  [op |-> "get_quiz", quiz_id |-> quiz_id, status |-> 200, error |-> "",
   time |-> 0, questions |-> QuizView(QuestionsOf(quiz_id))]

\* lines 174-187: the response of get_quiz
GetQuizResp(quiz_id) ==
  IF QuizGet(quiz_id) = {}
  THEN [op |-> "get_quiz", quiz_id |-> quiz_id, status |-> 404,
        error |-> QuizNotFound, time |-> 0, questions |-> <<>>]
  ELSE [op |-> "get_quiz", quiz_id |-> quiz_id, status |-> 200,
        error |-> "", time |-> (CHOOSE r \in QuizGet(quiz_id) : TRUE).time,
        questions |-> QuizView(QuestionsOf(quiz_id))]

\* GET /api/quiz/<quiz_id>
GetQuiz(reqs) ==
  \E quiz_id \in reqs.ids :
    /\ done' = Respond(reqs, GetQuizResp(quiz_id))
    /\ UNCHANGED << quiz, question, student, inflight >>

\* --------------------------------------------------------------- join_quiz
\* (data.get("name") or "")
NameOrEmpty(data_name) == IF data_name.isNull THEN <<>> ELSE data_name.s

\* the requests of one handler that are in flight
InFlight(op) ==
  LET rs == {r \in BagToSet(inflight) : r.op = op}
  IN  BagCardinality([r \in rs |-> CopiesIn(r, inflight)])

JoinResp(quiz_id, data_name, status, error) ==
  [op |-> "join", quiz_id |-> quiz_id, name |-> data_name,
   status |-> status, error |-> error, success |-> status = 200]

\* NotExisting inserting whatever the query found
NotExisting_Always(existing) == TRUE

\* the test of line 203, existing being the rows the query of line 202 found
NotExisting(existing) == existing = <<>>

\* POST /api/quiz/<quiz_id>/join up to the query of line 202
JoinBegin(reqs) ==
  \E quiz_id \in reqs.ids, data_name \in reqs.names :
    LET name == Strip(NameOrEmpty(data_name))
    IN  /\ UNCHANGED store
        /\ IF name = <<>>
           THEN /\ done' = Respond(reqs,
                             JoinResp(quiz_id, data_name, 400, NameRequired))
                /\ UNCHANGED inflight
           ELSE IF QuizGet(quiz_id) = {}
                THEN /\ done' = Respond(reqs,
                               JoinResp(quiz_id, data_name, 404, QuizNotFound))
                     /\ UNCHANGED inflight
                ELSE IF NotExisting(StudentsNamed(quiz_id, Str(name)))
                     THEN /\ BagCardinality(inflight) < MaxInflight
                          /\ Len(student) + InFlight("join") < MaxStudents
                          /\ inflight' = inflight (+)
                               SetToBag({[op |-> "join", quiz_id |-> quiz_id,
                                          data_name |-> data_name,
                                          name |-> name]})
                          /\ done' = NoResp
                     ELSE /\ done' = Respond(reqs,
                                    JoinResp(quiz_id, data_name, 200, ""))
                          /\ UNCHANGED inflight

\* lines 204-207: the insert, its commit and the response
JoinInsert(reqs) ==
  \E r \in BagToSet(inflight) :
    /\ r.op = "join"
    /\ student' = Append(student, StudentRow(r.quiz_id, r.name))
    /\ inflight' = inflight (-) SetToBag({r})
    /\ done' = Respond(reqs, JoinResp(r.quiz_id, r.data_name, 200, ""))
    /\ UNCHANGED << quiz, question >>

\* ------------------------------------------------------------- submit_quiz
None == "None"

\* answers.get(key)
DictGet(answers, key) ==
  IF key \in DOMAIN answers THEN answers[key] ELSE None

\* IsCorrect comparing without regard to case
IsCorrect_IgnoreCase(selected, correct) ==
  (IF selected = "b" THEN "B" ELSE selected) = correct

\* the test of line 224
IsCorrect(selected, correct) == selected = correct

RECURSIVE GradeLoop(_, _, _, _, _)
\* the loop of lines 221-235 from index i on (0-based), with the score and
\* the results so far
GradeLoop(questions, answers, i, score, results) ==
  IF i >= Len(questions)
  THEN [score |-> score, total |-> Len(questions), results |-> results]
  ELSE LET q          == questions[i + 1]
           selected   == DictGet(answers, ToString(i))
           correct    == q.answer_letter
           is_correct == IsCorrect(selected, correct)
       IN  GradeLoop(questions, answers, i + 1,
                     IF is_correct THEN score + 1 ELSE score,
                     Append(results,
                            [question    |-> q.question,
                             options     |-> q.options,
                             selected    |-> selected,
                             correct     |-> correct,
                             isCorrect   |-> is_correct,
                             explanation |-> q.explanation]))

\* lines 218-235
Grade(questions, answers) == GradeLoop(questions, answers, 0, 0, <<>>)

\* POST /api/quiz/<quiz_id>/submit up to the query of line 237
SubmitBegin(reqs) ==
  /\ BagCardinality(inflight) < MaxInflight
  /\ \E quiz_id \in reqs.ids, answers \in reqs.answers :
       \E g \in {Grade(QuestionsOf(quiz_id), answers)}, name \in reqs.names :
         /\ inflight' = inflight (+)
              SetToBag({[op |-> "submit", quiz_id |-> quiz_id, name |-> name,
                         answers |-> answers, score |-> g.score,
                         total |-> g.total, results |-> g.results]})
         /\ done' = NoResp
         /\ UNCHANGED store

\* PersistScore adding the score to the stored one
PersistScore_Accumulate(rows, score) ==
  IF rows = <<>> THEN student
  ELSE [student EXCEPT ![rows[1].id] =
          [@ EXCEPT !.score = @ + score, !.finished = TRUE]]

\* PersistScore keeping the best score of the student
PersistScore_Best(rows, score) ==
  IF rows = <<>> THEN student
  ELSE [student EXCEPT ![rows[1].id] =
          [@ EXCEPT !.score = IF @ > score THEN @ ELSE score,
                    !.finished = TRUE]]

\* lines 238-241: the student row found gets the score
PersistScore(rows, score) ==
  IF rows = <<>> THEN student
  ELSE [student EXCEPT ![rows[1].id] =
          [@ EXCEPT !.score = score, !.finished = TRUE]]

\* lines 237-247: the query of the student, the update, the response
SubmitPersist(reqs) ==
  \E r \in BagToSet(inflight) :
    /\ r.op = "submit"
    /\ student' = PersistScore(StudentsNamed(r.quiz_id, r.name), r.score)
    /\ inflight' = inflight (-) SetToBag({r})
    /\ done' = Respond(reqs,
               [op |-> "submit", quiz_id |-> r.quiz_id, name |-> r.name,
                answers |-> r.answers, status |-> 200, score |-> r.score,
                total |-> r.total, results |-> r.results])
    /\ UNCHANGED << quiz, question >>

\* ------------------------------------------------------------- admin_panel
\* GET /api/quiz/<quiz_id>/admin
AdminPanel(reqs) ==
  \E quiz_id \in reqs.ids :
    /\ done' = Respond(reqs,
               [op |-> "admin", quiz_id |-> quiz_id, status |-> 200,
                students |->
                  LET rows == StudentsOf(quiz_id)
                  IN  [k \in 1..Len(rows) |->
                         [name |-> rows[k].name, score |-> rows[k].score,
                          finished |-> rows[k].finished]]])
    /\ UNCHANGED << quiz, question, student, inflight >>

\* ------------------------------------------------------- specifications
\* db.create_all() on a new database
Init ==
  /\ quiz = {}
  /\ question = <<>>
  /\ student = <<>>
  /\ inflight = EmptyBag
  /\ done = NoResp

\* requests are served concurrently
Next ==
  \/ Generate(RacingRequests)
  \/ GetQuiz(RacingRequests)
  \/ JoinBegin(RacingRequests)
  \/ JoinInsert(RacingRequests)
  \/ SubmitBegin(RacingRequests)
  \/ SubmitPersist(RacingRequests)
  \/ AdminPanel(RacingRequests)

Spec == Init /\ [][Next]_vars

\* no request is in flight
Quiet == inflight = EmptyBag

\* requests are served one after another
NextSeq ==
  \/ Quiet /\ Generate(AllRequests)
  \/ Quiet /\ GetQuiz(AllRequests)
  \/ Quiet /\ JoinBegin(AllRequests)
  \/ JoinInsert(AllRequests)
  \/ Quiet /\ SubmitBegin(AllRequests)
  \/ SubmitPersist(AllRequests)
  \/ Quiet /\ AdminPanel(AllRequests)

SeqSpec == Init /\ [][NextSeq]_vars

\* the requests of a class: the quizzes are generated from a paragraph, then
\* two students join and submit to the quiz of the first id, one or both
\* answers right
ClassRequests ==
  [files |-> { NoFile }, paragraphs |-> { << "t" >> },
   num_qs |-> { Absent }, quiz_times |-> { Absent },
   outcomes |-> InTime, ids |-> { First(QuizIds) },
   names |-> { Str(<< "a" >>), Str(<< "b" >>) },
   answers |-> { [k \in {"0"} |-> "B"],
                 [k \in {"0", "1"} |-> IF k = "0" THEN "B" ELSE "C"] },
   observed |-> {"submit"}]

\* the quizzes are there before the first student; joins and submits
\* interleave
NextClass ==
  \/ Quiet /\ student = <<>> /\ Generate(ClassRequests)
  \/ JoinBegin(ClassRequests)
  \/ JoinInsert(ClassRequests)
  \/ SubmitBegin(ClassRequests)
  \/ SubmitPersist(ClassRequests)

ClassSpec == Init /\ [][NextClass]_vars

\* ------------------------------------------------- the parser on its own
\* a block in the format build_prompt asks for: its text, and the question,
\* the option texts, the answer letter and the explanation it was written
\* from.  opts are pairs <<letter, text>>, ans = "" leaves the Answer line
\* out, exp = <<>> the Explanation line
Mcq(num, q, opts, ans, exp) ==
  [text |->
     Lines(<< << "Q" >> \o num \o << ":", " " >> \o q >>
           \o [k \in 1..Len(opts) |-> OptLine(opts[k][1], opts[k][2])]
           \o (IF ans = "" THEN <<>> ELSE << AnsLine(ans) >>)
           \o (IF exp = <<>> THEN <<>> ELSE << ExpLine(exp) >>)),
   q |-> q,
   options |-> [k \in 1..Len(opts) |-> opts[k][2]],
   answer_letter |-> ans,
   explanation |-> exp,
   valid |-> /\ [k \in 1..Len(opts) |-> opts[k][1]] = << "A", "B", "C", "D" >>
             /\ ans \in Letters]

\* option lines A. to D.
FourOpts == << << "A", << "1" >> >>, << "B", << "2" >> >>,
               << "C", << "3" >> >>, << "D", << "4" >> >> >>

\* the blocks the answers are made of: three valid ones (a number used
\* again from one block to the next, a number of two digits, a question
\* that names another one), and one for each way of being invalid (three
\* option lines, five, no Answer line, an answer letter E)
BlockKinds ==
  { Mcq(<< "1" >>, << "2", "+", "2", "?" >>,
        << << "A", << "3" >> >>, << "B", << "4" >> >>,
           << "C", << "5" >> >>, << "D", << "6" >> >> >>,
        "B", << "m", "a", "t", "h" >>),
    Mcq(<< "1", "2" >>, << "w" >>, FourOpts, "D", <<>>),
    Mcq(<< "3" >>, << "s", " ", "Q", "4", ":", " ", "x" >>, FourOpts, "A",
        <<>>),
    Mcq(<< "7" >>, << "z" >>, SubSeq(FourOpts, 1, 3), "A", <<>>),
    Mcq(<< "8" >>, << "z" >>, FourOpts \o << << "D", << "5" >> >> >>, "A",
        <<>>),
    Mcq(<< "9" >>, << "z" >>, FourOpts, "", << "e" >>),
    Mcq(<< "5" >>, << "z" >>, FourOpts, "E", <<>>) }

\* the answers of the model: up to MaxBlocks blocks, one per line group
BlockSeqs == UNION { [1..n -> BlockKinds] : n \in 0..MaxBlocks }

\* the text of an answer
AnswerText(blocks) == Lines([k \in 1..Len(blocks) |-> blocks[k].text])

\* the model answered blocks, not parsed yet
InitParse ==
  /\ quiz = {}
  /\ question = <<>>
  /\ student = <<>>
  /\ inflight = EmptyBag
  /\ \E blocks \in BlockSeqs : done = [op |-> "answer", blocks |-> blocks]

\* questions = parse_mcqs(raw) (line 139)
Parse ==
  /\ done.op = "answer"
  /\ done' = [op |-> "parse", blocks |-> done.blocks,
              records |-> parse_mcqs(AnswerText(done.blocks))]
  /\ UNCHANGED << quiz, question, student, inflight >>

ParseSpec == InitParse /\ [][Parse]_vars

\* ------------------------------------------------------------ properties
\* the table rows (in rows) of one quiz and one stored name
RowsOf(rows, quiz_id, name) ==
  {k \in 1..Len(rows) : rows[k].quiz_id = quiz_id /\ rows[k].name = name}

\* the rows (in rows) the name of a submit body compares equal to
RowsNamed(rows, quiz_id, name) ==
  IF name.isNull THEN {} ELSE RowsOf(rows, quiz_id, name.s)

\* the Question rows (in rows) of one quiz, as positions of the table
QuestionsIn(rows, quiz_id) == {k \in 1..Len(rows) : rows[k].quiz_id = quiz_id}

\* the reference rule of grading: the number of positions i (0-based) whose
\* key str(i) is in the answers with the stored answer letter as its value
RefCorrect(qs, answers, i) ==
  ToString(i) \in DOMAIN answers /\ answers[ToString(i)] = qs[i + 1].answer_letter

RefScore(qs, answers) ==
  Cardinality({i \in 0..(Len(qs) - 1) : RefCorrect(qs, answers, i)})

\* C1: served one after another, join requests leave at most one Student
\* row per (quiz_id, name); every join with a non-blank name for an existing
\* quiz answers success; a join whose (quiz_id, name) already has a row
\* leaves table student as it is.
C1_SequentialJoinIdempotent ==
  [][ /\ \A i, j \in 1..Len(student') :
           i # j => ~ ( /\ student'[i].quiz_id = student'[j].quiz_id
                        /\ student'[i].name = student'[j].name )
      /\ ( /\ done'.op = "join"
           /\ Strip(NameOrEmpty(done'.name)) # <<>>
           /\ \E q \in quiz : q.id = done'.quiz_id )
         => done'.status = 200 /\ done'.success
      /\ ( /\ done'.op = "join"
           /\ RowsOf(student, done'.quiz_id,
                     Strip(NameOrEmpty(done'.name))) # {} )
         => student' = student
    ]_vars

\* C1 witness: a join answered success for a student who had joined and
\* submitted before, with one row for the name
C1_Witness ==
  /\ done.op = "join"
  /\ done.status = 200
  /\ \E k \in 1..Len(student) :
       /\ student[k].quiz_id = done.quiz_id
       /\ student[k].name = Strip(NameOrEmpty(done.name))
       /\ student[k].finished

\* C2: no reachable store state has two Student rows with the same quiz_id
\* and the same name, whatever the interleaving of the join requests.
C2_UniqueNamePerQuiz ==
  \A i, j \in 1..Len(student) :
    i # j => ~ ( /\ student[i].quiz_id = student[j].quiz_id
                 /\ student[i].name = student[j].name )

\* C3: every Quiz row has at least one Question row, and a generate request
\* whose parse gave no record answers 500 and adds no Quiz and no Question.
C3_NoQuizWithoutQuestions ==
  [][ /\ \A q \in quiz' : QuestionsIn(question', q.id) # {}
      /\ (done'.op = "generate" /\ done'.parsed = 0)
         => done'.status = 500 /\ quiz' = quiz /\ question' = question
    ]_vars

\* C3 witness: a generate request whose parse gave nothing was answered 500
\* while a quiz is stored
C3_Witness ==
  /\ done.op = "generate"
  /\ done.parsed = 0
  /\ done.status = 500
  /\ quiz # {}

\* C4: a step changes table quiz or table question only as a generate
\* request answered 200, which adds one Quiz row and, with it, the Question
\* rows of every record parsed; a generate request answered otherwise changes
\* neither; and a submit in flight has read none or all of the questions of
\* its quiz.
C4_QuizCreationAtomic ==
  [][ /\ (quiz' # quiz \/ question' # question)
         => /\ done'.op = "generate"
            /\ done'.status = 200
            /\ QuizGet(done'.quiz_id) = {}
            /\ quiz' = quiz \cup {[id |-> done'.quiz_id, time |-> done'.time]}
            /\ \E t \in RawTexts :
                 /\ Parsed[t] # <<>>
                 /\ done'.count = Len(Parsed[t])
                 /\ question' = question \o
                      QuestionRows(done'.quiz_id, Parsed[t])
      /\ (done'.op = "generate" /\ done'.status # 200)
         => quiz' = quiz /\ question' = question
      /\ \A r \in BagToSet(inflight') :
           r.op = "submit"
           => \/ r.total = 0
              \/ r.total = Cardinality(QuestionsIn(question', r.quiz_id))
    ]_vars

\* C4 witness: a generate request committed its quiz while a submit for that
\* quiz, which had found no question, is in flight
C4_Witness ==
  /\ done.op = "generate"
  /\ done.status = 200
  /\ \E r \in BagToSet(inflight) :
       r.op = "submit" /\ r.quiz_id = done.quiz_id /\ r.total = 0

\* C5: every Question row has exactly 4 options and an answer letter among
\* A, B, C, D, as has every record parse_mcqs returns, and every row carries
\* a record parse_mcqs returned.
C5_FourOptionsAndKey ==
  /\ \A t \in RawTexts : \A k \in 1..Len(Parsed[t]) :
       /\ Len(Parsed[t][k].options) = 4
       /\ Parsed[t][k].answer_letter \in {"A", "B", "C", "D"}
  /\ \A k \in 1..Len(question) :
       /\ Len(question[k].options) = 4
       /\ question[k].answer_letter \in {"A", "B", "C", "D"}
       /\ \E t \in RawTexts : \E j \in 1..Len(Parsed[t]) :
            /\ question[k].question = Parsed[t][j].q
            /\ question[k].options = Parsed[t][j].options
            /\ question[k].answer_letter = Parsed[t][j].answer_letter
            /\ question[k].explanation = Parsed[t][j].explanation

\* C5 witness: the rows of a model answer of three blocks, one of them with
\* three options, are stored
C5_Witness ==
  /\ done.op = "generate"
  /\ done.status = 200
  /\ done.parsed = 2
  /\ Cardinality(QuestionsIn(question, done.quiz_id)) = 2

\* C6: submit answers total = the number of questions of the quiz and
\* score = the number of positions whose key str(i) carries exactly the
\* stored answer letter; a position without key is reported with selected
\* None and isCorrect false; the response is a function of the questions
\* and the answers.
C6_GradingMatchesReference ==
  done.op = "submit"
  => LET qs == QuestionsOf(done.quiz_id)
     IN  /\ done.status = 200
         /\ done.total = Len(qs)
         /\ done.score = RefScore(qs, done.answers)
         /\ Len(done.results) = Len(qs)
         /\ \A i \in 0..(Len(qs) - 1) :
              /\ done.results[i + 1].isCorrect = RefCorrect(qs, done.answers, i)
              /\ done.results[i + 1].correct = qs[i + 1].answer_letter
              /\ done.results[i + 1].selected =
                   IF ToString(i) \in DOMAIN done.answers
                   THEN done.answers[ToString(i)] ELSE None
              /\ ToString(i) \notin DOMAIN done.answers
                 => ~done.results[i + 1].isCorrect

\* C6 witness: two questions, the first answered right, the second not
\* answered
C6_Witness ==
  /\ done.op = "submit"
  /\ done.total = 2
  /\ done.score = 1
  /\ DOMAIN done.answers = {"0"}

\* C7: the score a submit returns is between 0 and its total and is 0 for
\* empty answers; the score of every Student row is between 0 and the number
\* of Question rows of the student's quiz.
C7_ScoreBounds ==
  /\ \A r \in BagToSet(inflight) :
       r.op = "submit"
       => /\ 0 <= r.score
          /\ r.score <= r.total
          /\ r.total = 0 \/
             r.total = Cardinality(QuestionsIn(question, r.quiz_id))
          /\ DOMAIN r.answers = {} => r.score = 0
  /\ \A k \in 1..Len(student) :
       /\ 0 <= student[k].score
       /\ student[k].score <= Cardinality(QuestionsIn(question, student[k].quiz_id))

\* C7 witness: a student has every answer right, and a submit with empty
\* answers is about to return
C7_Witness ==
  /\ \E k \in 1..Len(student) :
       /\ student[k].finished
       /\ student[k].score = 2
       /\ Cardinality(QuestionsIn(question, student[k].quiz_id)) = 2
  /\ \E r \in BagToSet(inflight) :
       r.op = "submit" /\ DOMAIN r.answers = {} /\ r.total = 2

\* C8: a submit whose name equals the name of no Student row of the quiz
\* changes no table, and answers 200 with the score, the total and one
\* result per question.
C8_SubmitUnknownNameWritesNothing ==
  [][ ( /\ done'.op = "submit"
        /\ RowsNamed(student, done'.quiz_id, done'.name) = {} )
      => /\ quiz' = quiz /\ question' = question /\ student' = student
         /\ done'.status = 200
         /\ done'.total = Cardinality(QuestionsIn(question, done'.quiz_id))
         /\ Len(done'.results) = done'.total
         /\ done'.score = RefScore(QuestionsOf(done'.quiz_id), done'.answers)
    ]_vars

\* C8 witness: a submit under a name with a leading blank, which no row
\* carries, scored while the student of the name without blank has not
\* finished
C8_Witness ==
  /\ done.op = "submit"
  /\ done.name = Str(<< " ", "a" >>)
  /\ done.score > 0
  /\ \E k \in 1..Len(student) :
       /\ student[k].quiz_id = done.quiz_id
       /\ student[k].name = << "a" >>
       /\ ~student[k].finished

\* C9: get_quiz answers 404 with an error for an id without Quiz row, never
\* 200 with an empty list, and 200 with the questions of the quiz for the id
\* of a Quiz row.
C9_UnknownQuizNotFound ==
  done.op = "get_quiz"
  => IF \E q \in quiz : q.id = done.quiz_id
     THEN LET qs == QuestionsOf(done.quiz_id)
          IN  /\ done.status = 200
              /\ Len(done.questions) = Len(qs)
              /\ Len(qs) > 0
              /\ \A k \in 1..Len(qs) :
                   /\ done.questions[k].q = qs[k].question
                   /\ done.questions[k].options = qs[k].options
     ELSE /\ done.status = 404
          /\ done.error # ""
          /\ done.questions = <<>>

\* C9 witness: 404 for an unknown id while a quiz is stored
C9_Witness ==
  /\ done.op = "get_quiz"
  /\ done.status = 404
  /\ quiz # {}

\* C10 as claimed: a generate request with neither or with both of file and
\* paragraph is answered 400, persists nothing and does not call the model.
C10_ExactlyOneInput ==
  (done.op = "generate" /\ done.file = done.paragraph)
  => done.status = 400 /\ ~done.called /\ done.quiz_id = 0

\* C10 as amended: a generate request with neither file nor paragraph changes
\* no table, does not call the model and is answered 400 (500 when num_q or
\* quiz_time is not an integer); 400 is answered to no other request, the
\* model is called only with a file or a paragraph, and a request with both
\* is not refused for its input.
C10_InputRequired ==
  [][ done'.op = "generate"
      => /\ (~done'.file /\ ~done'.paragraph)
            => /\ ~done'.called
               /\ done'.status = IF done'.ints THEN 400 ELSE 500
               /\ quiz' = quiz /\ question' = question /\ student' = student
         /\ done'.status = 400 => (~done'.file /\ ~done'.paragraph)
         /\ done'.called => (done'.file \/ done'.paragraph)
    ]_vars

\* C10 witness: a request with both a file and a paragraph created a quiz
C10_Witness ==
  /\ done.op = "generate"
  /\ done.file
  /\ done.paragraph
  /\ done.status = 200

\* C11 as claimed: a generate request that fails because the document cannot
\* be opened or is empty, because the call of the model raises or takes
\* longer than the budget, or because the parser returns no record, is
\* answered 500 with the one message of line 147 and persists nothing.
C11_SingleFailureOutcome ==
  ( /\ done.op = "generate"
    /\ done.ints
    /\ \/ done.doc \in {"unopenable", "empty"}
       \/ done.called /\ (done.llm.raised \/ done.llm.elapsed > timeout_sec)
       \/ done.parsed = 0 )
  => /\ done.status = 500
     /\ done.error = AIGenerationFailed
     /\ done.quiz_id = 0

\* C12: the model is called once per request; call_llm returns the raw text
\* exactly when the service did not raise and took at most timeout_sec, and
\* fails otherwise; a generate request whose call raised or was over budget
\* is answered 500 and adds no Quiz and no Question, one whose call was
\* within the budget reaches the parser.
C12_ModelBudget ==
  [][ /\ \A o \in LLMOutcomes :
           LET r == call_llm(build_prompt(<< "t" >>, DefaultNumQ), o)
           IN  /\ r.ok <=> (~o.raised /\ o.elapsed <= timeout_sec)
               /\ r.ok => r.raw = o.content
               /\ ~r.ok => r.err = IF o.raised THEN GroqApiFailed
                                               ELSE GroqTimeout
      /\ (done'.op = "generate" /\ done'.called)
         => /\ (done'.llm.raised \/ done'.llm.elapsed > timeout_sec)
               => /\ done'.status = 500
                  /\ done'.error = AIGenerationFailed
                  /\ done'.parsed = -1
                  /\ quiz' = quiz /\ question' = question
            /\ (~done'.llm.raised /\ done'.llm.elapsed <= timeout_sec)
               => done'.parsed >= 0
            /\ done'.status = 200
               => ~done'.llm.raised /\ done'.llm.elapsed <= timeout_sec
    ]_vars

\* C12 witness: an answer of three blocks that took one second more than
\* the budget was refused, while a quiz from an answer that took exactly
\* the budget is stored
C12_Witness ==
  /\ done.op = "generate"
  /\ done.called
  /\ ~done.llm.raised
  /\ done.llm.elapsed = timeout_sec + 1
  /\ done.status = 500
  /\ quiz # {}

\* the records of the blocks from position k on, each block parsed alone
\* and the blocks that are not valid left out
RECURSIVE ValidAlone(_, _)
ValidAlone(blocks, k) ==
  IF k > Len(blocks) THEN <<>>
  ELSE (IF blocks[k].valid THEN parse_mcqs(blocks[k].text) ELSE <<>>)
       \o ValidAlone(blocks, k + 1)

\* C13 as claimed: for an answer made of N valid blocks parse_mcqs returns N
\* records, the k-th with the question text, the four option texts and the
\* answer letter of the k-th block.
C13_ParserCompleteInOrder ==
  ( /\ done.op = "parse"
    /\ \A k \in 1..Len(done.blocks) : done.blocks[k].valid )
  => /\ Len(done.records) = Len(done.blocks)
     /\ \A k \in 1..Len(done.blocks) :
          /\ done.records[k].q = done.blocks[k].q
          /\ done.records[k].options = done.blocks[k].options
          /\ done.records[k].answer_letter = done.blocks[k].answer_letter

\* C14: a block with fewer or more than four option lines, without Answer
\* line or with an answer letter outside A-D gives no record, and the
\* records of an answer are those of its valid blocks, each as parsed alone,
\* in the order of the blocks: one record per valid block, with its option
\* texts and its answer letter.
C14_RejectionIsLocal ==
  done.op = "parse"
  => /\ done.records = ValidAlone(done.blocks, 1)
     /\ \A k \in 1..Len(done.blocks) :
          LET alone == parse_mcqs(done.blocks[k].text)
          IN  IF done.blocks[k].valid
              THEN /\ Len(alone) = 1
                   /\ alone[1].options = done.blocks[k].options
                   /\ alone[1].answer_letter = done.blocks[k].answer_letter
              ELSE alone = <<>>

\* C14 witness: a block without Answer line between two valid blocks, both
\* of which are in the records
C14_Witness ==
  /\ done.op = "parse"
  /\ Len(done.blocks) = 3
  /\ done.blocks[1].valid
  /\ ~done.blocks[2].valid
  /\ done.blocks[2].answer_letter = ""
  /\ done.blocks[3].valid
  /\ Len(done.records) = 2
  /\ done.records[1].q = done.blocks[1].q
  /\ done.records[2].q = done.blocks[3].q

\* the Question rows with every answer letter and every explanation replaced
Rekeyed(rows, letter, exp) ==
  [k \in 1..Len(rows) |->
     [rows[k] EXCEPT !.answer_letter = letter, !.explanation = exp]]

\* C15: the response of get_quiz holds the quiz_id, the time and, for each
\* question, its text and its options and nothing else; it is the same for
\* a store whose questions differ in their answer letters and explanations
\* only.
C15_AnswerKeysWithheld ==
  (done.op = "get_quiz" /\ done.status = 200)
  => /\ DOMAIN done = {"op", "status", "error", "quiz_id", "time", "questions"}
     /\ \A k \in 1..Len(done.questions) :
          DOMAIN done.questions[k] = {"q", "options"}
     /\ \A letter \in Letters, exp \in { <<>>, << "e" >> } :
          QuizView(Rekeyed(QuestionsOf(done.quiz_id), letter, exp))
            = done.questions

\* C15 witness: the view of a quiz of two questions with different answer
\* letters, one of them with an explanation
C15_Witness ==
  /\ done.op = "get_quiz"
  /\ done.status = 200
  /\ Len(done.questions) = 2
  /\ LET qs == QuestionsOf(done.quiz_id)
     IN  /\ qs[1].answer_letter # qs[2].answer_letter
         /\ qs[1].explanation # <<>>

\* C17 as claimed: the time of every Quiz row is an integer >= 1, whatever
\* quiz_time the generate request carried.
C17_PositiveTime == \A q \in quiz : q.time \in Nat /\ q.time >= 1

\* C18: a Student row is added by join only, with score 0 and finished
\* false, and no row is removed; a row changes only by a submit for its quiz
\* and name, which sets its score to the score the submit returns, whatever
\* the score was, and finished to true; finished never returns to false; a
\* row that is not finished has score 0.
C18_StudentLifecycle ==
  [][ /\ Len(student') >= Len(student)
      /\ Len(student') > Len(student)
         => /\ done'.op = "join"
            /\ student' = Append(student,
                 [id |-> Len(student) + 1,
                  name |-> Strip(NameOrEmpty(done'.name)),
                  quiz_id |-> done'.quiz_id, score |-> 0, finished |-> FALSE])
      /\ \A k \in 1..Len(student) :
           /\ student'[k] # student[k]
              => /\ done'.op = "submit"
                 /\ done'.quiz_id = student[k].quiz_id
                 /\ done'.name = Str(student[k].name)
           /\ student[k].finished => student'[k].finished
      /\ done'.op = "submit"
         => \A k \in RowsNamed(student, done'.quiz_id, done'.name) :
              student'[k] = [student[k] EXCEPT !.score = done'.score,
                                               !.finished = TRUE]
      /\ \A k \in 1..Len(student') :
           ~student'[k].finished => student'[k].score = 0
    ]_vars

\* C18 witness: a submit without a right answer for a student who joined;
\* the row is finished with the score 0 of this submit
C18_Witness ==
  /\ done.op = "submit"
  /\ done.total = 2
  /\ done.score = 0
  /\ \E k \in RowsNamed(student, done.quiz_id, done.name) :
       student[k].finished /\ student[k].score = 0

\* the Question rows of a quiz in the order of the table
TableOrder(quiz_id) ==
  LET Match(r) == r.quiz_id = quiz_id IN SelectSeq(question, Match)

\* C19: the Question rows of a quiz are in the order in which parse_mcqs
\* returned the records; get_quiz lists them and submit grades them in that
\* order, the answer under key str(i) against the row at index i.
C19_PositionalConsistency ==
  /\ \A q \in quiz : \E t \in RawTexts :
       /\ Len(TableOrder(q.id)) = Len(Parsed[t])
       /\ \A k \in 1..Len(Parsed[t]) :
            /\ TableOrder(q.id)[k].question = Parsed[t][k].q
            /\ TableOrder(q.id)[k].answer_letter = Parsed[t][k].answer_letter
  /\ (done.op = "get_quiz" /\ done.status = 200)
     => /\ Len(done.questions) = Len(TableOrder(done.quiz_id))
        /\ \A k \in 1..Len(done.questions) :
             /\ done.questions[k].q = TableOrder(done.quiz_id)[k].question
             /\ done.questions[k].options = TableOrder(done.quiz_id)[k].options
  /\ done.op = "submit"
     => /\ Len(done.results) = Len(TableOrder(done.quiz_id))
        /\ \A i \in 0..(Len(done.results) - 1) :
             /\ done.results[i + 1].question
                  = TableOrder(done.quiz_id)[i + 1].question
             /\ done.results[i + 1].correct
                  = TableOrder(done.quiz_id)[i + 1].answer_letter
             /\ done.results[i + 1].isCorrect
                  = ( /\ ToString(i) \in DOMAIN done.answers
                      /\ done.answers[ToString(i)]
                           = TableOrder(done.quiz_id)[i + 1].answer_letter )

\* C19 witness: the answer under key "1" alone, the letter of the second
\* question and not of the first, scored for the second question
C19_Witness ==
  /\ done.op = "submit"
  /\ DOMAIN done.answers = {"1"}
  /\ done.total = 2
  /\ done.score = 1
  /\ ~done.results[1].isCorrect
  /\ done.results[2].isCorrect
  /\ done.answers["1"] # done.results[1].correct

\* C20 as claimed: a submit that follows a join answered success, for the
\* same quiz and with the same name as the request carried it, finds the
\* Student row of that join.
C20_JoinThenSubmitRecords ==
  [][ (done.op = "join" /\ done.status = 200)
      => \A r \in BagToSet(inflight') :
           (r.op = "submit" /\ r.quiz_id = done.quiz_id /\ r.name = done.name)
           => RowsNamed(student', r.quiz_id, r.name) # {}
    ]_vars

\* C16: whatever the interleaving of the joins and the submits of the
\* students of a quiz, a submit changes no Quiz and no Question row and no
\* Student row of another quiz or another name, adds and removes no row, and
\* leaves the row its query finds with the score of its own answers and
\* finished true.
C16_SubmitsDoNotInterfere ==
  [][ done'.op = "submit"
      => /\ quiz' = quiz /\ question' = question
         /\ Len(student') = Len(student)
         /\ \A k \in 1..Len(student) :
              k \notin RowsNamed(student, done'.quiz_id, done'.name)
              => student'[k] = student[k]
         /\ done'.score = RefScore(QuestionsOf(done'.quiz_id), done'.answers)
         /\ RowsNamed(student, done'.quiz_id, done'.name) # {}
            => LET k == First(RowsNamed(student, done'.quiz_id, done'.name))
               IN  /\ student'[k].score = done'.score
                   /\ student'[k].finished
    ]_vars

\* C16 witness: the submit of one student, both answers right, is recorded
\* while the row of the other student of the quiz has the score 1 of that
\* student's submit and another submit of that student is in flight
C16_Witness ==
  /\ done.op = "submit"
  /\ done.score = 2
  /\ \E i, j \in 1..Len(student) :
       /\ student[i].quiz_id = done.quiz_id
       /\ Str(student[i].name) = done.name
       /\ student[i].finished /\ student[i].score = 2
       /\ student[j].quiz_id = done.quiz_id
       /\ student[j].name # student[i].name
       /\ student[j].finished /\ student[j].score = 1
       /\ \E r \in BagToSet(inflight) :
            r.op = "submit" /\ r.quiz_id = done.quiz_id
            /\ r.name = Str(student[j].name)

====
